---- MODULE Spec2Model ----
(***************************************************************************)
(* Escrow-gated build-job orchestrator of the 4U backend: the durable job  *)
(* queue (build_jobs), the claim protocol and reaper (SQL functions), the  *)
(* worker pool (buildWorker.js), the build pipeline (buildPipeline.js),    *)
(* the requester routes (hire.js) and the agent job routes (sdk routes).   *)
(*                                                                         *)
(* Time is counted in units of ten minutes.  Money is counted in cents     *)
(* (the NUMERIC(12,2) columns); intermediate JavaScript values are counted *)
(* in 1/10000 of a USDC.                                                   *)
(***************************************************************************)
EXTENDS Integers, FiniteSets, Sequences, Bags, TLC

\* ---- bounds of the model ------------------------------------------------
NumBuilds   == 1   \* builds (and their jobs) that may be hired
NumJobs     == 5   \* rows of build_jobs in the claim-only and pool-only specifications
NumWorkers  == 2   \* worker processes
MaxTime     == 2   \* last instant of the clock
MaxRequests == 2   \* requester requests issued in one behaviour
NumCallers  == 3   \* concurrent claimNext callers of the claim-only specification
MaxAmount   == 130 \* largest escrow amount (cents) of the settlement-only specification
MaxLifeCalls == 3  \* startBuildWorker and stopBuildWorker calls in one behaviour
NumRequests == 2   \* rows of public.requests in the hire-only specification
NumTx       == 2   \* transaction signatures a requester may present

\* ---- program constants --------------------------------------------------
MAX_CONCURRENT      == 3
DEFAULT_MAX_RETRIES == 3
STUCK_TIMEOUT       == 1
PLATFORM_FEE_BPS    == 200

Builds  == 1..NumBuilds
JobIds  == 1..(IF NumJobs > NumBuilds THEN NumJobs ELSE NumBuilds)
Workers == 1..NumWorkers
ReqIds  == 1..MaxRequests
Callers == 1..NumCallers

NullInt   == -1    \* SQL NULL / JavaScript null in a numeric or timestamp column
NoWorker  == 0     \* SQL NULL in claimed_by; no holder of a row lock
Amounts   == {0, 25}
\* what the transaction named by txSignature transferred to the escrow wallet,
\* in cents; NullInt: not found, failed, or no matching transfer
Deposits  == {NullInt, 23, 24, 25}

BuildStatuses == {"hired", "building", "delivered", "revision_requested", "disputed",
                  "arbitration_pending", "accepted", "cancelled", "refunded"}
TerminalStatuses == {"accepted", "cancelled", "refunded"}

VARIABLES
  now,           \* the database clock, now()
  builds,        \* table public.builds, by id
  jobs,          \* table public.build_jobs; the job of build b has id b
  rowlock,       \* FOR UPDATE row locks on build_jobs held by claim transactions
  tasks,         \* processOne calls in flight (a bag: one element per call)
  runningCount,  \* buildWorker.js runningCount, per worker process
  reqs,          \* requester route handlers suspended between their read and their write
  nreq,          \* number of requester requests issued so far
  ledger,        \* settlement collaborator: transfers that succeeded, per build,
                 \* and what the latest release transferred (1/10000 USDC)
  failures,      \* executions of each job that ended in an error
  calls,         \* claimNext calls of the claim-only specification
  hireRes,       \* the response of the latest POST /api/hire
  requests,      \* table public.requests, by id: status and escrow_status
  pool           \* one worker process in detail (pool-only specification): its
                 \* drainQueue calls in flight and whether its poll timer is set

vars == <<now, builds, jobs, rowlock, tasks, runningCount, reqs, nreq,
          ledger, failures, calls, hireRes, requests, pool>>

NoBuild == [status |-> "absent", escrow_status |-> "absent", escrow_amount |-> NullInt,
            agent_payout |-> NullInt, platform_fee |-> NullInt,
            release_tx |-> FALSE, refund_tx |-> FALSE, delivered_url |-> FALSE,
            deposit |-> "absent", request_id |-> 0, deposit_tx_signature |-> 0]

NoJob == [status |-> "absent", retry_count |-> 0, max_retries |-> 0,
          claimed_at |-> NullInt, claimed_by |-> NoWorker, last_error |-> FALSE,
          created_at |-> 0]

IdleReq == [kind |-> "idle", b |-> 0, amount |-> 0, wallet |-> FALSE, code |-> "none",
            request |-> 0, tx |-> 0]
\* a handler that has answered: what it was and the response it gave
Answered(kind, b, code) ==
  [kind |-> kind, b |-> b, amount |-> 0, wallet |-> FALSE, code |-> code,
   request |-> 0, tx |-> 0]
\* a request nobody has hired for yet; the request of a Build, as the handlers
\* of hire, accept and cancel leave it
OpenRequest == [status |-> "Open", escrow_status |-> "none"]
RequestOf(bld) ==
  CASE bld.status = "absent"    -> OpenRequest
    [] bld.status = "cancelled" -> [status |-> "Open", escrow_status |-> "refunded"]
    [] bld.status = "accepted"  -> [status |-> "Completed", escrow_status |-> "released"]
    [] OTHER                    -> [status |-> "In Progress", escrow_status |-> "locked"]
NoCall  == [pc |-> "ready", job |-> 0]
\* no drainQueue call in flight, no poll timer set
NoPool  == [drains |-> EmptyBag, timer |-> FALSE]

\* ---- the transition table -----------------------------------------------
Transitions_no19 ==
  { <<"hired", "building">>, <<"hired", "cancelled">>,
    <<"building", "delivered">>, <<"building", "cancelled">>,
    <<"delivered", "accepted">>, <<"delivered", "revision_requested">>,
    <<"delivered", "disputed">>,
    <<"revision_requested", "building">>, <<"revision_requested", "disputed">>,
    <<"disputed", "arbitration_pending">>, <<"disputed", "accepted">>,
    <<"disputed", "refunded">>,
    <<"arbitration_pending", "accepted">>, <<"arbitration_pending", "refunded">> }

Transitions ==
  { <<"hired", "building">>, <<"hired", "cancelled">>,
    <<"building", "delivered">>, <<"building", "cancelled">>,
    <<"delivered", "accepted">>, <<"delivered", "revision_requested">>,
    <<"delivered", "disputed">>,
    <<"revision_requested", "building">>, <<"revision_requested", "disputed">>,
    <<"disputed", "arbitration_pending">>, <<"disputed", "accepted">>,
    <<"disputed", "refunded">>,
    <<"arbitration_pending", "accepted">>, <<"arbitration_pending", "refunded">>,
    <<"hired", "delivered">>, <<"revision_requested", "delivered">> }

validate_build_transition_skip(from, to) == TRUE

validate_build_transition(from, to) ==
  IF from \in {"disputed", "arbitration_pending"} /\ to \in {"accepted", "refunded"}
  THEN TRUE
  ELSE <<from, to>> \in Transitions

\* ---- claim protocol: claim_next_build_job --------------------------------
\* WHERE status = 'pending' AND retry_count < max_retries ... SKIP LOCKED
Eligible_nolock(j) ==
  /\ jobs[j].status = "pending"
  /\ jobs[j].retry_count < jobs[j].max_retries

Eligible(j) ==
  /\ jobs[j].status = "pending"
  /\ jobs[j].retry_count < jobs[j].max_retries
  /\ rowlock[j] = NoWorker

\* ORDER BY created_at ASC LIMIT 1
ClaimSelect_anyrow(j) == Eligible(j)

ClaimSelect(j) ==
  /\ Eligible(j)
  /\ \A k \in JobIds : Eligible(k) => jobs[j].created_at <= jobs[k].created_at

\* UPDATE ... SET status = 'running', claimed_at = now(), claimed_by = p_worker_id
ClaimUpdate(job, w) ==
  [job EXCEPT !.status = "running", !.claimed_at = now, !.claimed_by = w]

\* a worker's drainQueue passes its runningCount test and calls claimNextJob:
\* the SELECT locks the row
DrainClaim(w, j) ==
  /\ runningCount[w] < MAX_CONCURRENT
  /\ ClaimSelect(j)
  /\ rowlock' = [rowlock EXCEPT ![j] = w]
  /\ UNCHANGED <<now, builds, jobs, tasks, runningCount, reqs, nreq,
                 ledger, failures, calls, hireRes, pool, requests>>

\* the claim transaction commits and returns the row; drainQueue hands it to
\* processOne, which increments runningCount and starts the pipeline
ClaimCommit(w, j) ==
  /\ rowlock[j] = w
  /\ jobs' = [jobs EXCEPT ![j] = ClaimUpdate(jobs[j], w)]
  /\ rowlock' = [rowlock EXCEPT ![j] = NoWorker]
  /\ runningCount' = [runningCount EXCEPT ![w] = @ + 1]
  /\ tasks' = tasks (+) SetToBag({[w |-> w, j |-> j,
                                   retry_count |-> jobs[j].retry_count,
                                   max_retries |-> jobs[j].max_retries,
                                   pc |-> "start"]})
  /\ UNCHANGED <<now, builds, reqs, nreq, ledger, failures, calls, hireRes, requests>>

\* ---- reaper: requeue_stuck_build_jobs ------------------------------------
Stuck_notimeout(job) ==
  /\ job.status = "running"
  /\ job.claimed_at # NullInt

Stuck(job) ==
  /\ job.status = "running"
  /\ job.claimed_at # NullInt
  /\ job.claimed_at < now - STUCK_TIMEOUT

RequeueRow_countsretry(job) ==
  IF Stuck(job)
  THEN [job EXCEPT !.status = IF job.retry_count + 1 >= job.max_retries
                              THEN "dead_letter" ELSE "pending",
                   !.retry_count = job.retry_count + 1,
                   !.claimed_at = NullInt, !.claimed_by = NoWorker]
  ELSE job

RequeueRow(job) ==
  IF Stuck(job)
  THEN [job EXCEPT !.status = "pending", !.claimed_at = NullInt, !.claimed_by = NoWorker]
  ELSE job

requeue_stuck_build_jobs(js) == [j \in JobIds |-> RequeueRow(js[j])]

RequeueStuck ==
  /\ jobs' = requeue_stuck_build_jobs(jobs)
  /\ UNCHANGED <<now, builds, rowlock, tasks, runningCount, reqs, nreq,
                 ledger, failures, calls, hireRes, pool, requests>>

Tick ==
  /\ now < MaxTime
  /\ now' = now + 1
  /\ UNCHANGED <<builds, jobs, rowlock, tasks, runningCount, reqs, nreq,
                 ledger, failures, calls, hireRes, pool, requests>>

\* ---- build pipeline -------------------------------------------------------
\* markJobRunning: two unconditional writes
markJobRunning_job(job) == [job EXCEPT !.status = "running"]
markJobRunning_build(bld) == [bld EXCEPT !.status = "building"]

\* markJobFailed of buildPipeline.js: status 'failed'
PipelineMarkJobFailed(job) == [job EXCEPT !.status = "failed"]

\* deliverJob: two unconditional writes
deliverJob_job_nowrite(job) == job

deliverJob_job(job) == [job EXCEPT !.status = "completed"]
deliverJob_build(bld) == [bld EXCEPT !.status = "delivered", !.delivered_url = TRUE]

\* markJobFailed of buildWorker.js: retry or dead-letter
markJobFailed(job, retryCount, maxRetries) ==
  [job EXCEPT !.status = IF retryCount + 1 >= maxRetries THEN "dead_letter" ELSE "pending",
              !.last_error = TRUE,
              !.retry_count = retryCount + 1,
              !.claimed_at = NullInt,
              !.claimed_by = NoWorker]

\* runBuildPipeline wraps its whole body in try/catch: it never rejects
PipelineThrows == FALSE

\* runBuildPipeline up to the LLM call: getJobSpec, markJobRunning
PipelineStart(t) ==
  /\ BagIn(t, tasks)
  /\ t.pc = "start"
  /\ rowlock[t.j] = NoWorker
  /\ jobs' = [jobs EXCEPT ![t.j] = markJobRunning_job(@)]
  /\ builds' = [builds EXCEPT ![t.j] = markJobRunning_build(@)]
  /\ tasks' = (tasks (-) SetToBag({t})) (+) SetToBag({[t EXCEPT !.pc = "generating"]})
  /\ UNCHANGED <<now, rowlock, runningCount, reqs, nreq, ledger, failures, calls, hireRes, requests>>

\* processOne after the pipeline has settled: the catch branch (taken only
\* when the pipeline rejects), then finally
ProcessOneFinish(t, js) ==
  /\ jobs' = IF PipelineThrows
             THEN [js EXCEPT ![t.j] = markJobFailed(@, t.retry_count, t.max_retries)]
             ELSE js
  /\ runningCount' = [runningCount EXCEPT ![t.w] = @ - 1]
  /\ tasks' = tasks (-) SetToBag({t})

\* generateHtml, createZipBuffer, deployToNetlify succeed; deliverJob
PipelineDeliver(t) ==
  /\ BagIn(t, tasks)
  /\ t.pc = "generating"
  /\ rowlock[t.j] = NoWorker
  /\ builds' = [builds EXCEPT ![t.j] = deliverJob_build(@)]
  /\ ProcessOneFinish(t, [jobs EXCEPT ![t.j] = deliverJob_job(@)])
  /\ UNCHANGED <<now, rowlock, reqs, nreq, ledger, failures, calls, hireRes, requests>>

\* generateHtml or deployToNetlify throws: the pipeline's own catch marks the
\* job failed and returns normally
PipelineFail(t) ==
  /\ BagIn(t, tasks)
  /\ t.pc = "generating"
  /\ rowlock[t.j] = NoWorker
  /\ failures' = [failures EXCEPT ![t.j] = @ + 1]
  /\ ProcessOneFinish(t, [jobs EXCEPT ![t.j] = PipelineMarkJobFailed(@)])
  /\ UNCHANGED <<now, builds, rowlock, reqs, nreq, ledger, calls, hireRes, requests>>

\* ---- settlement collaborator: solanaEscrow.js ----------------------------
\* Amounts below are in 1/10000 USDC; c is the escrow amount in cents.
\* escrowAmount * (10000 - PLATFORM_FEE_BPS) is a double product of the double
\* nearest to c/100: mathematically the integer c * (10000 - BPS) / 100, but
\* the product may fall just below it, and Math.floor then yields one less.
\* lo says which of the two the double product does.
\* FloorsLow: the amounts in cents, up to MaxAmount and a little beyond, whose
\* IEEE-754 product falls below (0.41 * 9800 = 4017.9999999999995).
FloorsLow == {41, 57, 69, 82, 113, 114}

FloorSplit(c, lo) ==
  LET exact == (c * (10000 - PLATFORM_FEE_BPS)) \div 100
  IN  IF lo /\ c > 0 THEN exact - 1 ELSE exact

\* Math.round absorbs the same error
RoundSplit(c) == (c * (10000 - PLATFORM_FEE_BPS)) \div 100

\* a NUMERIC(12,2) column rounds the decimal text of the double half away from
\* zero; a value whose exact decimal is a tie (x.xx5) came out of a double
\* subtraction and lies on either side of the tie: tieUp says which
StoreCents(x4, tieUp) ==
  IF x4 % 100 = 50
  THEN IF tieUp THEN (x4 \div 100) + 1 ELSE x4 \div 100
  ELSE (x4 + 50) \div 100

\* releaseToAgent: agentPayout = floor(escrow * 9800) / 10000, fee = escrow - payout
releaseToAgent_wrongfee(c, lo) ==
  [agentPayout |-> FloorSplit(c, lo),
   platformFee |-> (c * PLATFORM_FEE_BPS) \div 10]

releaseToAgent(c, lo) ==
  [agentPayout |-> FloorSplit(c, lo),
   platformFee |-> c * 100 - FloorSplit(c, lo)]

\* the accept route's own split when no transfer is made
LocalSplit(c) ==
  [agentPayout |-> RoundSplit(c),
   platformFee |-> c * 100 - RoundSplit(c)]

\* ---- requester routes: hire.js --------------------------------------------
\* verifyUsdcDeposit: depositAmount < expectedAmount - 0.01 rejects.  The
\* double expectedAmount - 0.01 lies on either side of the exact difference,
\* so a deposit of exactly that amount passes or not: strict says which.
verifyUsdcDeposit_noamount(dep, expected, strict) == dep # NullInt

verifyUsdcDeposit(dep, expected, strict) ==
  /\ dep # NullInt
  /\ ~(dep < expected - 1 \/ (dep = expected - 1 /\ strict))

\* deposit_tx_signature, by what the transaction it names holds: no matching
\* transfer, one short of the amount less the tolerance, or one that covers it
DepositClass(dep, amt) ==
  IF dep = NullInt THEN "none"
  ELSE IF dep < amt - 1 THEN "short"
  ELSE "covers"

\* POST /api/hire: the deposit check, then the inserts.  A pitch of an SDK
\* agent (agent_id null) inserts the build only; a pitch of an internal agent
\* inserts the build and its build_jobs row.
Hire(b, amt, sdk, dep, strict) ==
  /\ builds[b] = NoBuild
  /\ \A k \in Builds : k < b => builds[k] # NoBuild
  /\ IF amt > 0 /\ ~verifyUsdcDeposit(dep, amt, strict)
     THEN /\ hireRes' = "400_deposit"
          /\ UNCHANGED <<builds, jobs, requests>>
     ELSE /\ hireRes' = "201"
          /\ requests' = [requests EXCEPT ![b] =
                            [status |-> "In Progress", escrow_status |-> "locked"]]
          /\ builds' = [builds EXCEPT ![b] =
                 [NoBuild EXCEPT !.status = "hired", !.escrow_status = "locked",
                                 !.escrow_amount = amt, !.request_id = b,
                                 !.deposit = DepositClass(dep, amt)]]
          /\ jobs' = IF sdk THEN jobs
                     ELSE [jobs EXCEPT ![b] =
                             [NoJob EXCEPT !.status = "pending",
                                           !.max_retries = DEFAULT_MAX_RETRIES,
                                           !.created_at = b]]
  /\ UNCHANGED <<now, rowlock, tasks, runningCount, reqs, nreq, ledger, failures, calls, pool>>

\* a route handler has read its rows and evaluated its guards: it either
\* answers with an error (nothing in flight) or goes on to its write.
\* wallet is what the wallet lookup of accept and cancel will find.
StartReq(kind, b, code, wallet) ==
  /\ nreq < MaxRequests
  /\ builds[b] # NoBuild
  /\ nreq' = nreq + 1
  /\ reqs' = [reqs EXCEPT ![nreq + 1] =
                IF code = "pending"
                THEN [kind |-> kind, b |-> b, amount |-> builds[b].escrow_amount,
                      wallet |-> wallet, code |-> code, request |-> 0, tx |-> 0]
                ELSE Answered(kind, b, code)]
  /\ UNCHANGED <<now, builds, jobs, rowlock, tasks, runningCount, ledger, failures, calls, hireRes, pool,
                 requests>>

\* the guards of POST /:buildId/accept, in the order of the code
AcceptGuard_nolock(bld, owner) ==
  IF ~validate_build_transition(bld.status, "accepted") THEN "400_transition"
  ELSE IF bld.escrow_status = "disputed_hold" THEN "400_frozen"
  ELSE IF ~owner THEN "403"
  ELSE "pending"

AcceptGuard(bld, owner) ==
  IF ~validate_build_transition(bld.status, "accepted") THEN "400_transition"
  ELSE IF bld.escrow_status = "disputed_hold" THEN "400_frozen"
  ELSE IF bld.escrow_status # "locked" THEN "400_escrow"
  ELSE IF ~owner THEN "403"
  ELSE "pending"

AcceptRead(b, owner, wallet) ==
  StartReq("accept", b, AcceptGuard(builds[b], owner), wallet)

\* the update of accept; threw: releaseToAgent rejected, control is in catch
AcceptWrite_always(bld, threw, split, tx, tieUp) ==
  [bld EXCEPT !.status = "accepted", !.escrow_status = "released",
              !.agent_payout = StoreCents(split.agentPayout, TRUE),
              !.platform_fee = StoreCents(split.platformFee, tieUp),
              !.release_tx = tx]

AcceptWrite(bld, threw, split, tx, tieUp) ==
  IF threw THEN bld
  ELSE [bld EXCEPT !.status = "accepted", !.escrow_status = "released",
                   !.agent_payout = StoreCents(split.agentPayout, TRUE),
                   !.platform_fee = StoreCents(split.platformFee, tieUp),
                   !.release_tx = tx]

\* accept after its guards: releaseToAgent or the local split, then the update.
\* threw: releaseToAgent rejected; storeErr: the update returned updateErr
AcceptSettle(r, threw, storeErr, lo, tieUp) ==
  LET b       == reqs[r].b
      onchain == reqs[r].amount > 0 /\ reqs[r].wallet
      split   == IF onchain THEN releaseToAgent(reqs[r].amount, lo)
                 ELSE LocalSplit(reqs[r].amount)
  IN  /\ reqs[r].kind = "accept"
      /\ reqs[r].code = "pending"
      /\ (~onchain => ~threw)
      /\ lo = (onchain /\ reqs[r].amount \in FloorsLow)
      /\ ~(threw /\ storeErr)
      /\ builds' = [builds EXCEPT ![b] =
                      AcceptWrite(@, threw \/ storeErr, split, onchain, tieUp)]
      /\ ledger' = IF onchain /\ ~threw
                   THEN [ledger EXCEPT ![b].released = @ + 1,
                                       ![b].paid = split.agentPayout]
                   ELSE ledger
      /\ reqs' = [reqs EXCEPT ![r] =
                    Answered("accept", b, IF threw THEN "500"
                                          ELSE IF storeErr THEN "500_store" ELSE "200")]
      /\ requests' = IF threw \/ storeErr THEN requests
                     ELSE [requests EXCEPT ![builds[b].request_id] =
                             [status |-> "Completed", escrow_status |-> "released"]]
      /\ UNCHANGED <<now, jobs, rowlock, tasks, runningCount, nreq, failures, calls, hireRes, pool>>

\* POST /:buildId/cancel selects only id, request_id, status: the row object
\* its guards look at has no escrow_status property
CancelSelect(bld) == [status |-> bld.status, escrow_status |-> "undefined"]

CancelGuard(row, owner) ==
  IF ~owner THEN "403"
  ELSE IF ~validate_build_transition(row.status, "cancelled") THEN "400_transition"
  ELSE IF row.escrow_status = "disputed_hold" THEN "400_frozen"
  ELSE "pending"

CancelRead(b, owner, wallet) ==
  StartReq("cancel", b, CancelGuard(CancelSelect(builds[b]), owner), wallet)

CancelWrite_escrowonly(bld, threw, tx) ==
  IF threw THEN bld
  ELSE [bld EXCEPT !.escrow_status = "refunded", !.refund_tx = tx]

CancelWrite(bld, threw, tx) ==
  IF threw THEN bld
  ELSE [bld EXCEPT !.status = "cancelled", !.escrow_status = "refunded", !.refund_tx = tx]

\* cancel after its guards: refundToBuyer for the full amount, then the update
CancelSettle(r, threw, storeErr) ==
  LET b       == reqs[r].b
      onchain == reqs[r].amount > 0 /\ reqs[r].wallet
  IN  /\ reqs[r].kind = "cancel"
      /\ reqs[r].code = "pending"
      /\ (~onchain => ~threw)
      /\ ~(threw /\ storeErr)
      /\ builds' = [builds EXCEPT ![b] = CancelWrite(@, threw \/ storeErr, onchain)]
      /\ ledger' = IF onchain /\ ~threw
                   THEN [ledger EXCEPT ![b].refunded = @ + 1]
                   ELSE ledger
      /\ reqs' = [reqs EXCEPT ![r] =
                    Answered("cancel", b, IF threw THEN "500"
                                          ELSE IF storeErr THEN "500_store" ELSE "200")]
      /\ requests' = IF threw \/ storeErr THEN requests
                     ELSE [requests EXCEPT ![builds[b].request_id] =
                             [status |-> "Open", escrow_status |-> "refunded"]]
      /\ UNCHANGED <<now, jobs, rowlock, tasks, runningCount, nreq, failures, calls, hireRes, pool>>

\* POST /:buildId/dispute and /:buildId/request-revision: owner, then the table
TransitionGuard(bld, to, owner) ==
  IF ~owner THEN "403"
  ELSE IF ~validate_build_transition(bld.status, to) THEN "400_transition"
  ELSE "pending"

DisputeRead(b, owner) ==
  StartReq("dispute", b, TransitionGuard(builds[b], "disputed", owner), FALSE)

DisputeWrite(r) ==
  /\ reqs[r].kind = "dispute"
  /\ reqs[r].code = "pending"
  /\ builds' = [builds EXCEPT ![reqs[r].b] =
                  [@ EXCEPT !.status = "disputed", !.escrow_status = "disputed_hold"]]
  /\ reqs' = [reqs EXCEPT ![r] = Answered("dispute", reqs[r].b, "200")]
  /\ UNCHANGED <<now, jobs, rowlock, tasks, runningCount, nreq, ledger, failures, calls, hireRes, pool,
                 requests>>

RevisionRead(b, owner) ==
  StartReq("revision", b, TransitionGuard(builds[b], "revision_requested", owner), FALSE)

RevisionWrite(r) ==
  /\ reqs[r].kind = "revision"
  /\ reqs[r].code = "pending"
  /\ builds' = [builds EXCEPT ![reqs[r].b] = [@ EXCEPT !.status = "revision_requested"]]
  /\ reqs' = [reqs EXCEPT ![r] = Answered("revision", reqs[r].b, "200")]
  /\ UNCHANGED <<now, jobs, rowlock, tasks, runningCount, nreq, ledger, failures, calls, hireRes, pool,
                 requests>>

\* ---- agent job routes ------------------------------------------------------
\* POST /jobs/:jobId/start
AgentStart(j) ==
  /\ jobs[j].status = "pending"
  /\ rowlock[j] = NoWorker
  /\ jobs' = [jobs EXCEPT ![j].status = "running"]
  /\ builds' = [builds EXCEPT ![j].status = "building"]
  /\ UNCHANGED <<now, rowlock, tasks, runningCount, reqs, nreq, ledger, failures, calls, hireRes, pool,
                 requests>>

\* POST /jobs/:jobId/deliver
AgentDeliver(j) ==
  /\ jobs[j].status = "running"
  /\ jobs' = [jobs EXCEPT ![j].status = "completed"]
  /\ builds' = [builds EXCEPT ![j].status = "delivered", ![j].delivered_url = TRUE]
  /\ UNCHANGED <<now, rowlock, tasks, runningCount, reqs, nreq, ledger, failures, calls, hireRes, pool,
                 requests>>

\* POST /jobs/:jobId/fail
AgentFail(j) ==
  /\ jobs[j] # NoJob
  /\ jobs[j].status \notin {"completed", "failed"}
  /\ rowlock[j] = NoWorker
  /\ jobs' = [jobs EXCEPT ![j].status = "failed"]
  /\ UNCHANGED <<now, builds, rowlock, tasks, runningCount, reqs, nreq, ledger,
                 failures, calls, hireRes, pool, requests>>

\* ---- the orchestrator ------------------------------------------------------
Init ==
  /\ now = 0
  /\ builds = [b \in JobIds |-> NoBuild]
  /\ jobs = [j \in JobIds |-> NoJob]
  /\ rowlock = [j \in JobIds |-> NoWorker]
  /\ tasks = EmptyBag
  /\ runningCount = [w \in Workers |-> 0]
  /\ reqs = [r \in ReqIds |-> IdleReq]
  /\ nreq = 0
  /\ ledger = [b \in JobIds |-> [released |-> 0, refunded |-> 0, paid |-> 0]]
  /\ failures = [j \in JobIds |-> 0]
  /\ calls = [c \in Callers |-> NoCall]
  /\ hireRes = "none"
  /\ pool = NoPool
  /\ requests = [q \in JobIds |-> RequestOf(builds[q])]

\* the worker processes, the reaper and the clock
WorkerNext ==
  \/ \E w \in Workers, j \in Builds : DrainClaim(w, j)
  \/ \E w \in Workers, j \in Builds : ClaimCommit(w, j) /\ UNCHANGED pool
  \/ \E t \in BagToSet(tasks) : PipelineStart(t) /\ UNCHANGED pool
  \/ \E t \in BagToSet(tasks) : PipelineDeliver(t) /\ UNCHANGED pool
  \/ \E t \in BagToSet(tasks) : PipelineFail(t) /\ UNCHANGED pool
  \/ RequeueStuck
  \/ Tick

\* the requester's requests
RequesterNext ==
  \/ \E b \in Builds, amt \in Amounts, sdk \in BOOLEAN, dep \in Deposits,
          strict \in BOOLEAN :
       Hire(b, amt, sdk, dep, strict)
  \/ \E b \in Builds, owner \in BOOLEAN, wallet \in BOOLEAN : AcceptRead(b, owner, wallet)
  \/ \E r \in ReqIds, threw \in BOOLEAN, storeErr \in BOOLEAN, lo \in BOOLEAN,
          tieUp \in BOOLEAN :
       AcceptSettle(r, threw, storeErr, lo, tieUp)
  \/ \E b \in Builds, owner \in BOOLEAN, wallet \in BOOLEAN : CancelRead(b, owner, wallet)
  \/ \E r \in ReqIds, threw \in BOOLEAN, storeErr \in BOOLEAN :
       CancelSettle(r, threw, storeErr)
  \/ \E b \in Builds, owner \in BOOLEAN : DisputeRead(b, owner)
  \/ \E r \in ReqIds : DisputeWrite(r)
  \/ \E b \in Builds, owner \in BOOLEAN : RevisionRead(b, owner)
  \/ \E r \in ReqIds : RevisionWrite(r)

\* the agent's requests
AgentNext ==
  \/ \E j \in Builds : AgentStart(j)
  \/ \E j \in Builds : AgentDeliver(j)
  \/ \E j \in Builds : AgentFail(j)

Next == WorkerNext \/ RequesterNext \/ AgentNext

\* requester, workers and reaper, without the agent job routes
OrchestratorNext == WorkerNext \/ RequesterNext

SpecOrchestrator == Init /\ [][OrchestratorNext]_vars

Spec == Init /\ [][Next]_vars

\* ---- the claim protocol alone: N concurrent callers against the job store ---
WorkerOf(c) == ((c - 1) % NumWorkers) + 1

\* a job store as hires and finished work leave it: every row is missing,
\* pending and never tried, or completed
ClaimInit ==
  /\ now = 0
  /\ \E st \in [JobIds -> {"absent", "pending", "completed"}] :
       /\ jobs = [j \in JobIds |->
                    IF st[j] = "absent" THEN NoJob
                    ELSE [NoJob EXCEPT !.status = st[j],
                                       !.max_retries = DEFAULT_MAX_RETRIES,
                                       !.created_at = j]]
       /\ builds = [j \in JobIds |->
                    IF st[j] = "absent" THEN NoBuild
                    ELSE [NoBuild EXCEPT !.request_id = j,
                            !.status = IF st[j] = "pending" THEN "hired" ELSE "delivered",
                            !.escrow_status = "locked", !.escrow_amount = 0,
                            !.deposit = "covers",
                            !.delivered_url = (st[j] = "completed")]]
       /\ hireRes = IF \A j \in JobIds : st[j] = "absent" THEN "none" ELSE "201"
  /\ pool = NoPool
  /\ rowlock = [j \in JobIds |-> NoWorker]
  /\ tasks = EmptyBag
  /\ runningCount = [w \in Workers |-> 0]
  /\ reqs = [r \in ReqIds |-> IdleReq]
  /\ nreq = 0
  /\ ledger = [b \in JobIds |-> [released |-> 0, refunded |-> 0, paid |-> 0]]
  /\ failures = [j \in JobIds |-> 0]
  /\ calls = [c \in Callers |-> NoCall]
  /\ requests = [q \in JobIds |-> RequestOf(builds[q])]

\* claimNextJob of caller c: the SELECT finds and locks the oldest eligible row
CallerSelect(c, j) ==
  /\ calls[c].pc = "ready"
  /\ ClaimSelect(j)
  /\ rowlock' = [rowlock EXCEPT ![j] = WorkerOf(c)]
  /\ calls' = [calls EXCEPT ![c] = [pc |-> "locked", job |-> j]]
  /\ UNCHANGED <<now, builds, jobs, tasks, runningCount, reqs, nreq, ledger, failures, hireRes, pool,
                 requests>>

\* the SELECT finds no row (none eligible, or every eligible row is locked):
\* RETURN NULL
CallerEmpty(c) ==
  /\ calls[c].pc = "ready"
  /\ ~ \E j \in JobIds : ClaimSelect(j)
  /\ calls' = [calls EXCEPT ![c] = [pc |-> "done", job |-> 0]]
  /\ UNCHANGED <<now, builds, jobs, rowlock, tasks, runningCount, reqs, nreq, ledger,
                 failures, hireRes, pool, requests>>

\* the UPDATE, the commit, and the row returned to the caller
CallerCommit(c) ==
  /\ calls[c].pc = "locked"
  /\ jobs' = [jobs EXCEPT ![calls[c].job] = ClaimUpdate(@, WorkerOf(c))]
  /\ rowlock' = [rowlock EXCEPT ![calls[c].job] = NoWorker]
  /\ calls' = [calls EXCEPT ![c].pc = "done"]
  /\ UNCHANGED <<now, builds, tasks, runningCount, reqs, nreq, ledger, failures, hireRes, pool,
                 requests>>

ClaimNext ==
  \/ \E c \in Callers, j \in JobIds : CallerSelect(c, j)
  \/ \E c \in Callers : CallerEmpty(c)
  \/ \E c \in Callers : CallerCommit(c)

SpecClaim == ClaimInit /\ [][ClaimNext]_vars

\* the claim protocol against any content of the retry columns: a row is
\* missing, pending and never tried, pending with retry_count = max_retries
\* (the columns carry no CHECK; the WHERE clause is the only guard), or completed
ClaimRowsInit ==
  /\ now = 0
  /\ \E st \in [JobIds -> {"absent", "pending", "exhausted", "completed"}] :
       /\ jobs = [j \in JobIds |->
                    IF st[j] = "absent" THEN NoJob
                    ELSE [NoJob EXCEPT
                            !.status = IF st[j] = "completed" THEN "completed" ELSE "pending",
                            !.retry_count = IF st[j] = "exhausted"
                                            THEN DEFAULT_MAX_RETRIES ELSE 0,
                            !.max_retries = DEFAULT_MAX_RETRIES,
                            !.created_at = j]]
       /\ builds = [j \in JobIds |->
                    IF st[j] = "absent" THEN NoBuild
                    ELSE [NoBuild EXCEPT !.request_id = j,
                            !.status = IF st[j] = "completed" THEN "delivered" ELSE "hired",
                            !.escrow_status = "locked", !.escrow_amount = 0,
                            !.deposit = "covers",
                            !.delivered_url = (st[j] = "completed")]]
       /\ hireRes = IF \A j \in JobIds : st[j] = "absent" THEN "none" ELSE "201"
  /\ pool = NoPool
  /\ rowlock = [j \in JobIds |-> NoWorker]
  /\ tasks = EmptyBag
  /\ runningCount = [w \in Workers |-> 0]
  /\ reqs = [r \in ReqIds |-> IdleReq]
  /\ nreq = 0
  /\ ledger = [b \in JobIds |-> [released |-> 0, refunded |-> 0, paid |-> 0]]
  /\ failures = [j \in JobIds |-> 0]
  /\ calls = [c \in Callers |-> NoCall]
  /\ requests = [q \in JobIds |-> RequestOf(builds[q])]

SpecClaimRows == ClaimRowsInit /\ [][ClaimNext]_vars

\* ---- the reaper and the claim protocol alone ----------------------------------
\* LongAgo: an instant more than the timeout before the clock of the model starts
LongAgo == 0 - (STUCK_TIMEOUT + 1)

\* every row is missing or was claimed long ago by a worker that is gone; its
\* retry_count is 0 or one below max_retries
ReapInit ==
  /\ now = 0
  /\ \E st \in [JobIds -> {"absent", "first", "last"}] :
       /\ jobs = [j \in JobIds |->
                    IF st[j] = "absent" THEN NoJob
                    ELSE [NoJob EXCEPT
                            !.status = "running",
                            !.retry_count = IF st[j] = "last"
                                            THEN DEFAULT_MAX_RETRIES - 1 ELSE 0,
                            !.max_retries = DEFAULT_MAX_RETRIES,
                            !.claimed_at = LongAgo,
                            !.claimed_by = WorkerOf(j),
                            !.created_at = j]]
       /\ builds = [j \in JobIds |->
                    IF st[j] = "absent" THEN NoBuild
                    ELSE [NoBuild EXCEPT !.request_id = j, !.status = "building",
                                         !.escrow_status = "locked", !.escrow_amount = 0,
                                         !.deposit = "covers"]]
       /\ hireRes = IF \A j \in JobIds : st[j] = "absent" THEN "none" ELSE "201"
  /\ pool = NoPool
  /\ rowlock = [j \in JobIds |-> NoWorker]
  /\ tasks = EmptyBag
  /\ runningCount = [w \in Workers |-> 0]
  /\ reqs = [r \in ReqIds |-> IdleReq]
  /\ nreq = 0
  /\ ledger = [b \in JobIds |-> [released |-> 0, refunded |-> 0, paid |-> 0]]
  /\ failures = [j \in JobIds |-> 0]
  /\ calls = [c \in Callers |-> NoCall]
  /\ requests = [q \in JobIds |-> RequestOf(builds[q])]

ReapNext ==
  \/ RequeueStuck
  \/ Tick
  \/ ClaimNext

SpecReap == ReapInit /\ [][ReapNext]_vars

\* ---- one worker process in detail: poll, drainQueue, processOne -------------
PoolWorker == 1

\* a drainQueue call whose while test has passed: poll says whether poll()
\* awaits it; pc is "rpc" while claimNextJob has not selected yet and "claim"
\* once it holds a row
NewDrain(poll) == [poll |-> poll, pc |-> "rpc", job |-> 0]

\* drainQueue's while test, run without interruption when the call starts and
\* after each processOne(job): the drains in flight once drain d (or a new
\* one) has tested a runningCount of rc
DrainTest(drains, d, rc) ==
  IF rc < MAX_CONCURRENT THEN drains (+) SetToBag({d}) ELSE drains

\* poll() sets its timer when the drainQueue call it awaits returns
AfterTest(p, drains, d, rc) ==
  [drains |-> DrainTest(drains, d, rc),
   timer  |-> p.timer \/ (d.poll /\ ~(rc < MAX_CONCURRENT))]

\* startBuildWorker has run in a process with no job in flight: poll() has
\* called drainQueue; every job of the store is pending
PoolInit ==
  /\ now = 0
  /\ jobs = [j \in JobIds |-> [NoJob EXCEPT !.status = "pending",
                                            !.max_retries = DEFAULT_MAX_RETRIES,
                                            !.created_at = j]]
  /\ builds = [j \in JobIds |-> [NoBuild EXCEPT !.request_id = j, !.status = "hired",
                                                !.escrow_status = "locked",
                                                !.escrow_amount = 0,
                                                !.deposit = "covers"]]
  /\ rowlock = [j \in JobIds |-> NoWorker]
  /\ tasks = EmptyBag
  /\ runningCount = [w \in Workers |-> 0]
  /\ reqs = [r \in ReqIds |-> IdleReq]
  /\ nreq = 0
  /\ ledger = [b \in JobIds |-> [released |-> 0, refunded |-> 0, paid |-> 0]]
  /\ failures = [j \in JobIds |-> 0]
  /\ calls = [c \in Callers |-> NoCall]
  /\ hireRes = "201"
  /\ pool = [drains |-> SetToBag({NewDrain(TRUE)}), timer |-> FALSE]
  /\ requests = [q \in JobIds |-> RequestOf(builds[q])]

\* claimNextJob of a drain: the SELECT locks a row
PoolDrainClaim(d, j) ==
  /\ BagIn(d, pool.drains)
  /\ d.pc = "rpc"
  /\ ClaimSelect(j)
  /\ rowlock' = [rowlock EXCEPT ![j] = PoolWorker]
  /\ pool' = [pool EXCEPT !.drains = (@ (-) SetToBag({d})) (+)
                                      SetToBag({[d EXCEPT !.pc = "claim", !.job = j]})]
  /\ UNCHANGED <<now, builds, jobs, tasks, runningCount, reqs, nreq, ledger,
                 failures, calls, hireRes, requests>>

\* claimNextJob returns null: the loop breaks and drainQueue returns
PoolDrainEmpty(d) ==
  /\ BagIn(d, pool.drains)
  /\ d.pc = "rpc"
  /\ ~ \E j \in JobIds : ClaimSelect(j)
  /\ pool' = [drains |-> pool.drains (-) SetToBag({d}),
              timer |-> pool.timer \/ d.poll]
  /\ UNCHANGED <<now, builds, jobs, rowlock, tasks, runningCount, reqs, nreq, ledger,
                 failures, calls, hireRes, requests>>

\* claimNextJob returns the row: processOne(job) increments runningCount and
\* the loop tests it again
PoolClaimCommit(d) ==
  /\ BagIn(d, pool.drains)
  /\ d.pc = "claim"
  /\ ClaimCommit(PoolWorker, d.job)
  /\ pool' = AfterTest(pool, pool.drains (-) SetToBag({d}),
                       [d EXCEPT !.pc = "rpc", !.job = 0], runningCount'[PoolWorker])

\* the poll timer fires: poll() calls drainQueue
PollFire ==
  /\ pool.timer
  /\ pool' = AfterTest([pool EXCEPT !.timer = FALSE], pool.drains, NewDrain(TRUE),
                       runningCount[PoolWorker])
  /\ UNCHANGED <<now, builds, jobs, rowlock, tasks, runningCount, reqs, nreq, ledger,
                 failures, calls, hireRes, requests>>

\* processOne's finally: runningCount--, then drainQueue() (not awaited)
FinallyDrain_nodrain == pool' = pool

FinallyDrain ==
  pool' = AfterTest(pool, pool.drains, NewDrain(FALSE), runningCount'[PoolWorker])

PoolNext ==
  \/ \E d \in BagToSet(pool.drains), j \in JobIds : PoolDrainClaim(d, j)
  \/ \E d \in BagToSet(pool.drains) : PoolDrainEmpty(d)
  \/ \E d \in BagToSet(pool.drains) : PoolClaimCommit(d)
  \/ PollFire
  \/ \E t \in BagToSet(tasks) : PipelineStart(t) /\ UNCHANGED pool
  \/ \E t \in BagToSet(tasks) : PipelineDeliver(t) /\ FinallyDrain
  \/ \E t \in BagToSet(tasks) : PipelineFail(t) /\ FinallyDrain

SpecPool == PoolInit /\ [][PoolNext]_vars

\* the event loop runs every callback that is ready, the store answers every
\* rpc, the poll timer fires, and every pipeline run comes to an end
SpecPoolFair ==
  /\ PoolInit /\ [][PoolNext]_vars
  /\ WF_vars(\/ \E d \in BagToSet(pool.drains), j \in JobIds : PoolDrainClaim(d, j)
             \/ \E d \in BagToSet(pool.drains) : PoolDrainEmpty(d))
  /\ WF_vars(\E d \in BagToSet(pool.drains) : PoolClaimCommit(d))
  /\ WF_vars(PollFire)
  /\ WF_vars(\E t \in BagToSet(tasks) : PipelineStart(t) /\ UNCHANGED pool)
  /\ WF_vars(\E t \in BagToSet(tasks) :
               (PipelineDeliver(t) \/ PipelineFail(t)) /\ FinallyDrain)

\* ---- worker lifecycle: startBuildWorker, stopBuildWorker ----------------------
\* the worker module as loaded: no timer, no interval, no call made yet.
\* pollTimeoutId is "null", "armed" (the handle of a timer that is pending) or
\* "fired" (the handle of a timer that has fired: poll() keeps it until it sets
\* the next one); timers and intervals count the pending timers and the
\* intervals whose handle has been overwritten or dropped; sweep counts the
\* startup requeueStuck calls whose rpc the store has not run yet
NoLife ==
  [drains |-> EmptyBag, pollTimeoutId |-> "null", timers |-> 0,
   requeueInterval |-> FALSE, intervals |-> 0, sweep |-> 0,
   ncalls |-> 0, stopped |-> FALSE]

\* pollTimeoutId = setTimeout(poll, POLL_INTERVAL_MS): a pending timer whose
\* handle is overwritten stays pending
SetPollTimer(p) ==
  [p EXCEPT !.pollTimeoutId = "armed",
            !.timers = @ + (IF p.pollTimeoutId = "armed" THEN 1 ELSE 0)]

\* drainQueue's while test for drain d (new, or back from processOne(job)):
\* the loop goes on to claimNextJob, or the call returns and the poll() that
\* awaits it sets its timer
LifeAfterTest(p, drains, d, rc) ==
  IF rc < MAX_CONCURRENT
  THEN [p EXCEPT !.drains = drains (+) SetToBag({d})]
  ELSE IF d.poll THEN SetPollTimer([p EXCEPT !.drains = drains])
       ELSE [p EXCEPT !.drains = drains]

\* the store before the process starts: MAX_CONCURRENT rows, each pending or
\* left running by a process that crashed long ago
LifeInit ==
  /\ now = 0
  /\ \E orphans \in SUBSET (1..MAX_CONCURRENT) :
       jobs = [j \in JobIds |->
                 IF j > MAX_CONCURRENT THEN NoJob
                 ELSE IF j \in orphans
                 THEN [NoJob EXCEPT !.status = "running",
                                    !.max_retries = DEFAULT_MAX_RETRIES,
                                    !.claimed_at = LongAgo,
                                    !.claimed_by = PoolWorker + 1,
                                    !.created_at = j]
                 ELSE [NoJob EXCEPT !.status = "pending",
                                    !.max_retries = DEFAULT_MAX_RETRIES,
                                    !.created_at = j]]
  /\ builds = [j \in JobIds |->
                 IF jobs[j].status = "absent" THEN NoBuild
                 ELSE [NoBuild EXCEPT !.request_id = j, !.status = IF jobs[j].status = "running"
                                                           THEN "building" ELSE "hired",
                                                !.escrow_status = "locked",
                                                !.escrow_amount = 0,
                                                !.deposit = "covers"]]
  /\ rowlock = [j \in JobIds |-> NoWorker]
  /\ tasks = EmptyBag
  /\ runningCount = [w \in Workers |-> 0]
  /\ reqs = [r \in ReqIds |-> IdleReq]
  /\ nreq = 0
  /\ ledger = [b \in JobIds |-> [released |-> 0, refunded |-> 0, paid |-> 0]]
  /\ failures = [j \in JobIds |-> 0]
  /\ calls = [c \in Callers |-> NoCall]
  /\ hireRes = "201"
  /\ pool = NoLife
  /\ requests = [q \in JobIds |-> RequestOf(builds[q])]

\* startBuildWorker: returns at once when pollTimeoutId is set; otherwise
\* poll() calls drainQueue, setInterval registers the reaper and
\* requeueStuck() sends its rpc
StartBuildWorker ==
  /\ pool.ncalls < MaxLifeCalls
  /\ pool' = IF pool.pollTimeoutId # "null"
             THEN [pool EXCEPT !.ncalls = @ + 1, !.stopped = FALSE]
             ELSE LifeAfterTest([pool EXCEPT !.ncalls = @ + 1,
                                             !.stopped = FALSE,
                                             !.intervals = @ + (IF pool.requeueInterval
                                                                THEN 1 ELSE 0),
                                             !.requeueInterval = TRUE,
                                             !.sweep = @ + 1],
                                pool.drains, NewDrain(TRUE), runningCount[PoolWorker])
  /\ UNCHANGED <<now, builds, jobs, rowlock, tasks, runningCount, reqs, nreq, ledger,
                 failures, calls, hireRes, requests>>

\* stopBuildWorker: clearTimeout and clearInterval of the two handles it holds
StopBuildWorker ==
  /\ pool.ncalls < MaxLifeCalls
  /\ pool' = [pool EXCEPT !.ncalls = @ + 1,
                          !.stopped = TRUE,
                          !.pollTimeoutId = "null",
                          !.requeueInterval = FALSE]
  /\ UNCHANGED <<now, builds, jobs, rowlock, tasks, runningCount, reqs, nreq, ledger,
                 failures, calls, hireRes, requests>>

\* claimNextJob returns null: the loop breaks, drainQueue returns and the
\* poll() that awaits it sets its timer
LifeDrainEmpty(d) ==
  /\ BagIn(d, pool.drains)
  /\ d.pc = "rpc"
  /\ ~ \E j \in JobIds : ClaimSelect(j)
  /\ pool' = IF d.poll
             THEN SetPollTimer([pool EXCEPT !.drains = @ (-) SetToBag({d})])
             ELSE [pool EXCEPT !.drains = @ (-) SetToBag({d})]
  /\ UNCHANGED <<now, builds, jobs, rowlock, tasks, runningCount, reqs, nreq, ledger,
                 failures, calls, hireRes, requests>>

\* claimNextJob returns the row: processOne(job), then the while test
LifeClaimCommit(d) ==
  /\ BagIn(d, pool.drains)
  /\ d.pc = "claim"
  /\ ClaimCommit(PoolWorker, d.job)
  /\ pool' = LifeAfterTest(pool, pool.drains (-) SetToBag({d}),
                           [d EXCEPT !.pc = "rpc", !.job = 0], runningCount'[PoolWorker])

\* the timer pollTimeoutId refers to fires: poll()
LifePollFire ==
  /\ pool.pollTimeoutId = "armed"
  /\ pool' = LifeAfterTest([pool EXCEPT !.pollTimeoutId = "fired"], pool.drains,
                           NewDrain(TRUE), runningCount[PoolWorker])
  /\ UNCHANGED <<now, builds, jobs, rowlock, tasks, runningCount, reqs, nreq, ledger,
                 failures, calls, hireRes, requests>>

\* a pending timer whose handle was overwritten fires: poll()
LifeLostFire ==
  /\ pool.timers > 0
  /\ pool' = LifeAfterTest([pool EXCEPT !.timers = @ - 1], pool.drains,
                           NewDrain(TRUE), runningCount[PoolWorker])
  /\ UNCHANGED <<now, builds, jobs, rowlock, tasks, runningCount, reqs, nreq, ledger,
                 failures, calls, hireRes, requests>>

\* processOne's finally: runningCount--, then drainQueue() (not awaited)
LifeFinally ==
  pool' = LifeAfterTest(pool, pool.drains, NewDrain(FALSE), runningCount'[PoolWorker])

\* the store runs the rpc of a requeueStuck() called by startBuildWorker
LifeStartupSweep ==
  /\ pool.sweep > 0
  /\ jobs' = requeue_stuck_build_jobs(jobs)
  /\ pool' = [pool EXCEPT !.sweep = @ - 1]
  /\ UNCHANGED <<now, builds, rowlock, tasks, runningCount, reqs, nreq, ledger,
                 failures, calls, hireRes, requests>>

\* an interval registered by startBuildWorker fires: requeueStuck()
LifeIntervalSweep ==
  /\ pool.requeueInterval \/ pool.intervals > 0
  /\ RequeueStuck

LifeNext ==
  \/ StartBuildWorker
  \/ StopBuildWorker
  \/ \E d \in BagToSet(pool.drains), j \in JobIds : PoolDrainClaim(d, j)
  \/ \E d \in BagToSet(pool.drains) : LifeDrainEmpty(d)
  \/ \E d \in BagToSet(pool.drains) : LifeClaimCommit(d)
  \/ LifePollFire
  \/ LifeLostFire
  \/ LifeStartupSweep
  \/ LifeIntervalSweep
  \/ \E t \in BagToSet(tasks) : PipelineStart(t) /\ UNCHANGED pool
  \/ \E t \in BagToSet(tasks) : PipelineDeliver(t) /\ LifeFinally
  \/ \E t \in BagToSet(tasks) : PipelineFail(t) /\ LifeFinally

SpecLife == LifeInit /\ [][LifeNext]_vars

\* ---- running jobs under crashes, with a reaper that keeps running -------------
\* a worker process dies and is started again: its processOne calls are gone,
\* its claim transaction (if any) is rolled back, runningCount starts at 0
Crash(w) ==
  /\ \/ \E t \in BagToSet(tasks) : t.w = w
     \/ \E j \in JobIds : rowlock[j] = w
  /\ tasks' = [t \in {u \in BagToSet(tasks) : u.w # w} |-> tasks[t]]
  /\ rowlock' = [j \in JobIds |-> IF rowlock[j] = w THEN NoWorker ELSE rowlock[j]]
  /\ runningCount' = [runningCount EXCEPT ![w] = 0]
  /\ UNCHANGED <<now, builds, jobs, reqs, nreq, ledger, failures, calls, hireRes, pool, requests>>

\* one hired Build whose job is pending
LiveInit ==
  /\ now = 0
  /\ jobs = [j \in JobIds |->
               IF j = 1
               THEN [NoJob EXCEPT !.status = "pending",
                                  !.max_retries = DEFAULT_MAX_RETRIES, !.created_at = 1]
               ELSE NoJob]
  /\ builds = [j \in JobIds |->
                 IF j = 1
                 THEN [NoBuild EXCEPT !.request_id = j, !.status = "hired", !.escrow_status = "locked",
                                      !.escrow_amount = 0, !.deposit = "none"]
                 ELSE NoBuild]
  /\ rowlock = [j \in JobIds |-> NoWorker]
  /\ tasks = EmptyBag
  /\ runningCount = [w \in Workers |-> 0]
  /\ reqs = [r \in ReqIds |-> IdleReq]
  /\ nreq = 0
  /\ ledger = [b \in JobIds |-> [released |-> 0, refunded |-> 0, paid |-> 0]]
  /\ failures = [j \in JobIds |-> 0]
  /\ calls = [c \in Callers |-> NoCall]
  /\ hireRes = "201"
  /\ pool = NoPool
  /\ requests = [q \in JobIds |-> RequestOf(builds[q])]

\* the clock of the model stops at MaxTime: a claim is taken, and its
\* claimed_at written, only while the clock can still run past its timeout
ClaimInTime == now + STUCK_TIMEOUT < MaxTime

\* what the workers and the reaper do by themselves
LiveSteps ==
  \/ \E w \in Workers, j \in Builds : ClaimInTime /\ DrainClaim(w, j)
  \/ \E w \in Workers, j \in Builds : ClaimInTime /\ ClaimCommit(w, j) /\ UNCHANGED pool
  \/ \E t \in BagToSet(tasks) : PipelineStart(t) /\ UNCHANGED pool
  \/ \E t \in BagToSet(tasks) : PipelineDeliver(t) /\ UNCHANGED pool
  \/ \E t \in BagToSet(tasks) : PipelineFail(t) /\ UNCHANGED pool
  \/ RequeueStuck
  \/ Tick

LiveNext ==
  \/ LiveSteps
  \/ \E w \in Workers : Crash(w)
  \/ AgentNext

\* time passes, the reaper interval keeps firing, and a worker that is not
\* crashed finishes what it has started; crashes and agent requests may or
\* may not happen
SpecLive == LiveInit /\ [][LiveNext]_vars /\ WF_vars(LiveSteps)

\* ---- the transition check alone, over every pair of statuses -----------------
\* a Build in any status of builds_status_check
TransInit ==
  /\ now = 0
  /\ \E from \in BuildStatuses :
       builds = [b \in JobIds |->
                   IF b = 1
                   THEN [NoBuild EXCEPT !.request_id = b, !.status = from, !.escrow_status = "locked",
                                        !.escrow_amount = 0, !.deposit = "none"]
                   ELSE NoBuild]
  /\ jobs = [j \in JobIds |-> NoJob]
  /\ rowlock = [j \in JobIds |-> NoWorker]
  /\ tasks = EmptyBag
  /\ runningCount = [w \in Workers |-> 0]
  /\ reqs = [r \in ReqIds |-> IdleReq]
  /\ nreq = 0
  /\ ledger = [b \in JobIds |-> [released |-> 0, refunded |-> 0, paid |-> 0]]
  /\ failures = [j \in JobIds |-> 0]
  /\ calls = [c \in Callers |-> NoCall]
  /\ hireRes = "201"
  /\ pool = NoPool
  /\ requests = [q \in JobIds |-> RequestOf(builds[q])]

\* rpc('validate_build_transition', { p_from: build.status, p_to: to }): the
\* call is recorded with p_to as its kind and the boolean it returned as its code
ValidateCall(b, to) ==
  /\ nreq < MaxRequests
  /\ nreq' = nreq + 1
  /\ reqs' = [reqs EXCEPT ![nreq + 1] =
                Answered(to, b, IF validate_build_transition(builds[b].status, to)
                                THEN "true" ELSE "false")]
  /\ UNCHANGED <<now, builds, jobs, rowlock, tasks, runningCount, ledger, failures,
                 calls, hireRes, pool, requests>>

TransNext == \E to \in BuildStatuses : ValidateCall(1, to)

SpecTrans == TransInit /\ [][TransNext]_vars

\* ---- a hired Build, its worker and a requester who asks for revisions ---------
RevisionNext ==
  \/ LiveSteps
  \/ \E b \in Builds, owner \in BOOLEAN : RevisionRead(b, owner)
  \/ \E r \in ReqIds : RevisionWrite(r)
  \/ AgentNext

\* time passes, the reaper interval keeps firing and the worker finishes what
\* it has started; the requester and the agent may or may not act
SpecRevision == LiveInit /\ [][RevisionNext]_vars /\ WF_vars(LiveSteps)

\* ---- hire and cancel alone: concurrent handlers on the same requests -----------
\* a row of public.requests that does not exist
NoRequest == [status |-> "absent", escrow_status |-> "none"]

\* the transaction signatures a requester may present, and what the
\* transaction each names transferred to the escrow wallet, in cents: the
\* first names a finalized transfer of the pitch price, the others none
TxRefs == 1..NumTx
DepositOf(tx) == IF tx = 1 THEN 25 ELSE NullInt

\* the first free id of public.builds
NextBuildId == CHOOSE b \in JobIds :
                 /\ builds[b] = NoBuild
                 /\ \A k \in JobIds : k < b => builds[k] # NoBuild

\* NumRequests requests, all Open: nobody has hired yet, or request 1 was
\* hired against transaction 1 and its Build cancelled and refunded
HireInit ==
  /\ now = 0
  /\ \E again \in BOOLEAN :
       /\ builds = [b \in JobIds |->
                      IF again /\ b = 1
                      THEN [NoBuild EXCEPT !.status = "cancelled",
                                           !.escrow_status = "refunded",
                                           !.escrow_amount = DepositOf(1),
                                           !.refund_tx = TRUE,
                                           !.deposit = "covers",
                                           !.request_id = 1,
                                           !.deposit_tx_signature = 1]
                      ELSE NoBuild]
       /\ jobs = [j \in JobIds |->
                    IF again /\ j = 1
                    THEN [NoJob EXCEPT !.status = "pending",
                                       !.max_retries = DEFAULT_MAX_RETRIES,
                                       !.created_at = 1]
                    ELSE NoJob]
       /\ ledger = [b \in JobIds |->
                      [released |-> 0, refunded |-> IF again /\ b = 1 THEN 1 ELSE 0,
                       paid |-> 0]]
       /\ hireRes = IF again THEN "201" ELSE "none"
  /\ requests = [q \in JobIds |->
                   IF q > NumRequests THEN NoRequest ELSE RequestOf(builds[q])]
  /\ rowlock = [j \in JobIds |-> NoWorker]
  /\ tasks = EmptyBag
  /\ runningCount = [w \in Workers |-> 0]
  /\ reqs = [r \in ReqIds |-> IdleReq]
  /\ nreq = 0
  /\ failures = [j \in JobIds |-> 0]
  /\ calls = [c \in Callers |-> NoCall]
  /\ pool = NoPool

\* POST /api/hire up to its guards on the request row: the handler answers
\* 403 or 400, or goes on with the request it has read as Open
HireRead(q, amt, tx, owner) ==
  /\ nreq < MaxRequests
  /\ requests[q] # NoRequest
  /\ nreq' = nreq + 1
  /\ LET code == IF ~owner THEN "403"
                 ELSE IF requests[q].status # "Open" THEN "400_not_open"
                 ELSE "pending"
     IN  /\ reqs' = [reqs EXCEPT ![nreq + 1] =
                       [kind |-> "hire", b |-> 0,
                        amount |-> IF code = "pending" THEN amt ELSE 0,
                        wallet |-> FALSE, code |-> code, request |-> q, tx |-> tx]]
         /\ hireRes' = IF code = "pending" THEN hireRes ELSE code
  /\ UNCHANGED <<now, builds, jobs, rowlock, tasks, runningCount, ledger, failures,
                 calls, requests, pool>>

\* the row POST /api/hire inserts into builds
HireBuild(q, amt, tx) ==
  [NoBuild EXCEPT !.status = "hired", !.escrow_status = "locked",
                  !.escrow_amount = amt, !.request_id = q,
                  !.deposit_tx_signature = tx,
                  !.deposit = DepositClass(DepositOf(tx), amt)]

\* POST /api/hire after its guards: the deposit check of a priced pitch, the
\* inserts into builds and build_jobs, the update of the request
HireInsert(r, sdk, strict) ==
  LET q   == reqs[r].request
      tx  == reqs[r].tx
      amt == reqs[r].amount
      b   == NextBuildId
  IN  /\ reqs[r].kind = "hire"
      /\ reqs[r].code = "pending"
      /\ IF amt > 0 /\ ~verifyUsdcDeposit(DepositOf(tx), amt, strict)
         THEN /\ hireRes' = "400_deposit"
              /\ reqs' = [reqs EXCEPT ![r].code = "400_deposit", ![r].amount = 0]
              /\ UNCHANGED <<builds, jobs, requests>>
         ELSE /\ \E k \in JobIds : builds[k] = NoBuild
              /\ hireRes' = "201"
              /\ reqs' = [reqs EXCEPT ![r].code = "201", ![r].b = b, ![r].amount = 0]
              /\ builds' = [builds EXCEPT ![b] = HireBuild(q, amt, tx)]
              /\ jobs' = IF sdk THEN jobs
                         ELSE [jobs EXCEPT ![b] =
                                 [NoJob EXCEPT !.status = "pending",
                                               !.max_retries = DEFAULT_MAX_RETRIES,
                                               !.created_at = b]]
              /\ requests' = [requests EXCEPT ![q] =
                                [status |-> "In Progress", escrow_status |-> "locked"]]
      /\ UNCHANGED <<now, rowlock, tasks, runningCount, nreq, ledger, failures, calls, pool>>

HireNext ==
  \/ \E q \in 1..NumRequests, amt \in Amounts, tx \in TxRefs, owner \in BOOLEAN :
       HireRead(q, amt, tx, owner)
  \/ \E r \in ReqIds, sdk \in BOOLEAN, strict \in BOOLEAN : HireInsert(r, sdk, strict)
  \/ \E b \in JobIds, owner \in BOOLEAN, wallet \in BOOLEAN : CancelRead(b, owner, wallet)
  \/ \E r \in ReqIds, threw \in BOOLEAN, storeErr \in BOOLEAN :
       CancelSettle(r, threw, storeErr)

SpecHire == HireInit /\ [][HireNext]_vars

\* ---- accept alone, over a range of escrow amounts ---------------------------
\* build 1 delivered by its job, escrow locked, any amount up to MaxAmount
SettleInit ==
  /\ now = 0
  /\ \E amt \in 0..MaxAmount :
       builds = [b \in JobIds |->
                   IF b = 1
                   THEN [NoBuild EXCEPT !.request_id = b, !.status = "delivered", !.escrow_status = "locked",
                                        !.escrow_amount = amt, !.deposit = "covers",
                                        !.delivered_url = TRUE]
                   ELSE NoBuild]
  /\ jobs = [j \in JobIds |->
               IF j = 1
               THEN [NoJob EXCEPT !.status = "completed",
                                  !.max_retries = DEFAULT_MAX_RETRIES, !.created_at = 1]
               ELSE NoJob]
  /\ rowlock = [j \in JobIds |-> NoWorker]
  /\ tasks = EmptyBag
  /\ runningCount = [w \in Workers |-> 0]
  /\ reqs = [r \in ReqIds |-> IdleReq]
  /\ nreq = 0
  /\ ledger = [b \in JobIds |-> [released |-> 0, refunded |-> 0, paid |-> 0]]
  /\ failures = [j \in JobIds |-> 0]
  /\ calls = [c \in Callers |-> NoCall]
  /\ hireRes = "201"
  /\ pool = NoPool
  /\ requests = [q \in JobIds |-> RequestOf(builds[q])]

SettleNext ==
  \/ \E b \in Builds, owner \in BOOLEAN, wallet \in BOOLEAN : AcceptRead(b, owner, wallet)
  \/ \E r \in ReqIds, threw \in BOOLEAN, storeErr \in BOOLEAN, lo \in BOOLEAN,
          tieUp \in BOOLEAN :
       AcceptSettle(r, threw, storeErr, lo, tieUp)

SpecSettle == SettleInit /\ [][SettleNext]_vars

\* ---- properties --------------------------------------------------------------
TypeOK ==
  /\ now \in 0..MaxTime
  /\ nreq \in 0..MaxRequests
  /\ \A w \in Workers : runningCount[w] >= 0

Rejections == {"400_transition", "400_frozen", "400_escrow", "403"}

Target(kind) ==
  CASE kind = "accept"   -> "accepted"
    [] kind = "cancel"   -> "cancelled"
    [] kind = "dispute"  -> "disputed"
    [] kind = "revision" -> "revision_requested"

Min(a, b) == IF a < b THEN a ELSE b

Returned == {c \in Callers : calls[c].pc = "done" /\ calls[c].job # 0}

\* the jobs that were pending when the callers started: those still pending
\* and those a caller has turned to running
PendingAtStart == {j \in JobIds : jobs[j].status \in {"pending", "running"}}

\* C1: when N concurrent claimNext calls against M pending jobs have all
\* returned, exactly min(N, M) of them returned a job, and at no time have two
\* calls returned (or locked) the same job.
C1_AtMostOneClaim ==
  /\ \A c, d \in Callers :
       (c # d /\ calls[c].job # 0) => calls[c].job # calls[d].job
  /\ (\A c \in Callers : calls[c].pc = "done") =>
       Cardinality(Returned) = Min(NumCallers, Cardinality(PendingAtStart))

\* all calls have returned, some with a job and some empty
C1_Witness ==
  /\ \A c \in Callers : calls[c].pc = "done"
  /\ Returned # {}
  /\ Returned # Callers

\* C2: a job whose execution has failed fewer than max_retries times is not in
\* a failure state (it is pending again, re-claimed, or completed), and a job
\* whose execution has failed max_retries times is dead_letter.
C2_RetryBound ==
  \A j \in JobIds :
    failures[j] > 0 =>
      /\ failures[j] < jobs[j].max_retries =>
           jobs[j].status \in {"pending", "running", "completed"}
      /\ failures[j] >= jobs[j].max_retries => jobs[j].status = "dead_letter"

\* C3: a request (accept, cancel, dispute, request-revision) for a transition
\* (from, to) that is not in the transition table is rejected, and the step
\* changes no Build and moves no funds.
C3_TransitionSoundness ==
  [][ nreq' = nreq + 1 =>
        LET q == reqs'[nreq'] IN
          <<builds[q.b].status, Target(q.kind)>> \notin Transitions =>
            /\ q.code \in Rejections
            /\ builds' = builds
            /\ ledger' = ledger ]_vars

C3_Witness == \E k \in ReqIds : reqs[k].code = "400_transition"

\* C4: an accept or cancel request on a Build whose escrow_status is
\* disputed_hold is rejected, in every reachable state.
C4_DisputeFreeze ==
  [][ nreq' = nreq + 1 =>
        LET q == reqs'[nreq'] IN
          (q.kind \in {"accept", "cancel"} /\ builds[q.b].escrow_status = "disputed_hold") =>
            /\ q.code \in Rejections
            /\ builds' = builds
            /\ ledger' = ledger ]_vars

C6_FailedSettlementKeepsBuild ==
  [][ \A k \in ReqIds :
        (reqs[k].code = "pending" /\ reqs'[k].code = "500") =>
          /\ builds' = builds
          /\ ledger' = ledger ]_vars

C6_Witness == \E k \in ReqIds : reqs[k].code = "500"

\* the worker processes that have a processOne call in flight for job j
Executing(j) == {t.w : t \in {u \in BagToSet(tasks) : u.j = j}}

\* C7: no job is being executed by two worker processes at the same time.
C7_AtMostOneWorkerPerJob == \A j \in JobIds : Cardinality(Executing(j)) <= 1

\* C8: every change of a Build's status is an edge of the transition table.
C8_EveryStatusChangeIsAnEdge ==
  [][ \A b \in JobIds :
        (builds[b] # NoBuild /\ builds'[b].status # builds[b].status) =>
          <<builds[b].status, builds'[b].status>> \in Transitions ]_vars

\* C9: once a Build's status is accepted, cancelled or refunded, no step
\* changes it.
C9_TerminalStatusesStay ==
  [][ \A b \in JobIds :
        builds[b].status \in TerminalStatuses =>
          builds'[b].status = builds[b].status ]_vars

Abs(x) == IF x < 0 THEN -x ELSE x

\* C10: after a successful accept the recorded agent_payout + platform_fee
\* differs from the Build's escrow_amount by at most one minor unit (a cent).
C10_SplitAddsUp ==
  \A b \in JobIds :
    builds[b].status = "accepted" =>
      Abs(builds[b].agent_payout + builds[b].platform_fee - builds[b].escrow_amount) <= 1

C10_Witness ==
  \E b \in JobIds :
    /\ builds[b].status = "accepted"
    /\ builds[b].release_tx
    /\ builds[b].escrow_amount > 0
    /\ builds[b].agent_payout + builds[b].platform_fee = builds[b].escrow_amount

C12_EveryBuildHasItsJob ==
  \A b \in JobIds : builds[b] # NoBuild => jobs[b] # NoJob

\* a running job whose claim is older than the timeout, and one whose claim is not
ClaimOlder(job) ==
  job.status = "running" /\ job.claimed_at # NullInt /\ now - job.claimed_at > STUCK_TIMEOUT

ClaimYounger(job) ==
  job.status = "running" /\ job.claimed_at # NullInt /\ now - job.claimed_at <= STUCK_TIMEOUT

\* C13: a reaper sweep leaves every running job with a younger claim unchanged,
\* resets every running job with an older claim to pending with claimed_at and
\* claimed_by null, after which the claim protocol selects it again, and a
\* second sweep right after the first changes nothing.
C13_ReaperSweep ==
  [][ RequeueStuck =>
        /\ \A j \in JobIds :
             /\ ClaimYounger(jobs[j]) => jobs'[j] = jobs[j]
             /\ ClaimOlder(jobs[j]) =>
                  /\ jobs'[j] = [jobs[j] EXCEPT !.status = "pending",
                                                !.claimed_at = NullInt,
                                                !.claimed_by = NoWorker]
                  /\ Eligible(j)'
        /\ requeue_stuck_build_jobs(jobs') = jobs' ]_vars

\* a job that was reaped while worker t.w was executing it and has been
\* claimed again by another worker
C13_Witness ==
  \E t \in BagToSet(tasks) :
    /\ jobs[t.j].status = "running"
    /\ jobs[t.j].claimed_by # NoWorker
    /\ jobs[t.j].claimed_by # t.w

\* C14: in each worker process runningCount never exceeds MAX_CONCURRENT.
C14_RunningCountBounded ==
  \A w \in Workers : runningCount[w] <= MAX_CONCURRENT

\* C15: no step of a requester request, an agent request or a worker changes
\* the status of a Build that is disputed or arbitration_pending (the program
\* has no step of the platform actor).
C15_DisputedLeavesOnlyByPlatform ==
  [][ \A b \in JobIds :
        builds[b].status \in {"disputed", "arbitration_pending"} =>
          builds'[b].status = builds[b].status ]_vars

\* C16: no Build has escrow_status released without a release call having
\* succeeded for it (stated for the Builds with a positive escrow amount, where
\* a release has funds to move).
C16_ReleasedOnlyAfterRelease ==
  \A b \in JobIds :
    (builds[b].escrow_status = "released" /\ builds[b].escrow_amount > 0) =>
      ledger[b].released > 0

\* C17: no Build has escrow_status refunded without a refund call having
\* succeeded for it (stated for the Builds with a positive escrow amount, where
\* a refund has funds to move).
C17_RefundedOnlyAfterRefund ==
  \A b \in JobIds :
    (builds[b].escrow_status = "refunded" /\ builds[b].escrow_amount > 0) =>
      ledger[b].refunded > 0

\* C18: when a request in which a release or refund call succeeded finishes,
\* the Build's escrow_status is released or refunded, also when the store
\* write after the settlement call fails.
C18_FundsAndStatusMoveTogether ==
  [][ \A k \in ReqIds :
        (reqs[k].code = "pending" /\ reqs'[k].code # "pending"
           /\ ledger'[reqs[k].b] # ledger[reqs[k].b]) =>
          builds'[reqs[k].b].escrow_status \in {"released", "refunded"} ]_vars

\* C19: a dispute request on a Build whose escrow_status is not locked is
\* rejected with the Build unchanged, and a dispute that succeeds started
\* from escrow_status locked and leaves status disputed, escrow_status
\* disputed_hold.
C19_DisputeOnlyWhenLocked ==
  [][ /\ nreq' = nreq + 1 =>
           LET q == reqs'[nreq'] IN
             (q.kind = "dispute" /\ builds[q.b].escrow_status # "locked") =>
               /\ q.code \in Rejections
               /\ builds' = builds
      /\ \A k \in ReqIds :
           (reqs[k].kind = "dispute" /\ reqs[k].code = "pending"
              /\ reqs'[k].code = "200") =>
             /\ builds[reqs[k].b].escrow_status = "locked"
             /\ builds'[reqs[k].b].status = "disputed"
             /\ builds'[reqs[k].b].escrow_status = "disputed_hold" ]_vars

\* C20: an accept that succeeds splits the escrow at 2%: a release transfers
\* 98% of the escrow to the payee, and the Build records 98% as agent_payout
\* and 2% as platform_fee (to the cent), with or without an on-chain transfer.
C20_SplitAtTwoPercent ==
  [][ \A k \in ReqIds :
        (reqs[k].kind = "accept" /\ reqs[k].code = "pending" /\ reqs'[k].code = "200") =>
          LET b == reqs[k].b
              c == reqs[k].amount
          IN  /\ ledger'[b].released # ledger[b].released =>
                   ledger'[b].paid = c * 98
              /\ builds'[b].agent_payout = StoreCents(c * 98, TRUE)
              /\ builds'[b].platform_fee \in
                   {StoreCents(c * 2, TRUE), StoreCents(c * 2, FALSE)} ]_vars

TerminalJobStatuses == {"completed", "failed", "dead_letter"}

\* C21: once a job's status is completed, failed or dead_letter no step
\* changes it: the job is not claimed, not reaped, and no worker, pipeline or
\* agent-route step writes another status.
C21_TerminalJobStatusesStay ==
  [][ \A j \in JobIds :
        jobs[j].status \in TerminalJobStatuses => jobs'[j].status = jobs[j].status ]_vars

\* C23: in every state each job has claimed_at and claimed_by both set or
\* both null, and a job whose status is running has both set.
C23_ClaimFieldsTogether ==
  \A j \in JobIds :
    /\ (jobs[j].claimed_at = NullInt) <=> (jobs[j].claimed_by = NoWorker)
    /\ jobs[j].status = "running" =>
         (jobs[j].claimed_at # NullInt /\ jobs[j].claimed_by # NoWorker)

\* C24: no step changes a Build's escrow_status while leaving its status
\* unchanged.
C24_EscrowStatusMovesWithStatus ==
  [][ \A b \in JobIds :
        (builds[b] # NoBuild /\ builds'[b].escrow_status # builds[b].escrow_status) =>
          builds'[b].status # builds[b].status ]_vars

\* a dispute has succeeded: it wrote status and escrow_status in one update
C24_Witness ==
  \E b \in JobIds :
    /\ builds[b].status = "disputed"
    /\ builds[b].escrow_status = "disputed_hold"
    /\ \E k \in ReqIds : reqs[k].kind = "dispute" /\ reqs[k].code = "200"

\* the WHERE clause of the claim read off a row, and the rows no caller has locked
Claimable(job) == job.status = "pending" /\ job.retry_count < job.max_retries

\* C25: a claimNext call selects a pending row with retry_count < max_retries
\* that no other caller has locked and that is the oldest such row; it
\* returns that row with status running and claimed_by the caller's worker
\* id; it returns empty only when no such row exists.
C25_ClaimNextReturnsOldestEligible ==
  [][ \A c \in Callers :
        /\ (calls[c].pc = "ready" /\ calls'[c].pc = "locked") =>
             LET j == calls'[c].job IN
               /\ Claimable(jobs[j])
               /\ rowlock[j] = NoWorker
               /\ \A k \in JobIds :
                    (Claimable(jobs[k]) /\ rowlock[k] = NoWorker) =>
                      jobs[j].created_at <= jobs[k].created_at
        /\ (calls[c].pc = "locked" /\ calls'[c].pc = "done") =>
             LET j == calls'[c].job IN
               /\ j # 0
               /\ Claimable(jobs[j])
               /\ jobs'[j].status = "running"
               /\ jobs'[j].claimed_by = WorkerOf(c)
               /\ jobs'[j].claimed_at = now
               /\ jobs'[j].retry_count = jobs[j].retry_count
        /\ (calls[c].pc = "ready" /\ calls'[c].pc = "done") =>
             /\ calls'[c].job = 0
             /\ jobs' = jobs
             /\ \A k \in JobIds : ~(Claimable(jobs[k]) /\ rowlock[k] = NoWorker) ]_vars

\* a call returned a job that is not the oldest row of the table (an older
\* pending row has used up its retries), and another call returned empty
C25_Witness ==
  \E c, d \in Callers :
    /\ calls[c].pc = "done" /\ calls[c].job > 1
    /\ \E k \in JobIds :
         /\ k < calls[c].job
         /\ jobs[k].status = "pending"
         /\ jobs[k].retry_count >= jobs[k].max_retries
    /\ calls[d].pc = "done" /\ calls[d].job = 0

\* C26: when an execution of a job claimed with retry count r ends in an
\* error, the job becomes pending with retry_count r + 1 and claimed_at,
\* claimed_by null if r + 1 < max_retries, and dead_letter with retry_count
\* r + 1 otherwise; in both cases last_error is set.
C26_FailureHandling ==
  [][ \A t \in BagToSet(tasks) :
        (CopiesIn(t, tasks') < CopiesIn(t, tasks) /\ failures'[t.j] > failures[t.j]) =>
          /\ jobs'[t.j].retry_count = t.retry_count + 1
          /\ jobs'[t.j].last_error
          /\ IF t.retry_count + 1 < t.max_retries
             THEN /\ jobs'[t.j].status = "pending"
                  /\ jobs'[t.j].claimed_at = NullInt
                  /\ jobs'[t.j].claimed_by = NoWorker
             ELSE jobs'[t.j].status = "dead_letter" ]_vars

\* the processOne call t ends in this step
Finishes(t) == CopiesIn(t, tasks') < CopiesIn(t, tasks) /\ t.pc = "generating"

C28_RunningJobsLeaveRunning ==
  /\ \A j \in JobIds : (jobs[j].status = "running") ~> (jobs[j].status # "running")
  /\ [][ \A j \in JobIds :
           (jobs[j].status = "running" /\ jobs'[j].status # "running") =>
             \/ jobs'[j].status \in TerminalJobStatuses
             \/ jobs'[j].status = "pending" /\ Stuck(jobs[j]) ]_vars

\* C29: the end of an execution decrements runningCount and, when that leaves
\* the worker below MAX_CONCURRENT, starts a drain in the same step; a drain
\* stops only when runningCount has reached MAX_CONCURRENT or claimNext finds
\* no row; and every pending job of a started worker is eventually claimed.
C29_DrainKeepsPoolSaturated ==
  /\ [][ \A t \in BagToSet(tasks) :
           Finishes(t) =>
             /\ runningCount'[t.w] = runningCount[t.w] - 1
             /\ runningCount'[t.w] < MAX_CONCURRENT =>
                  BagCardinality(pool'.drains) = BagCardinality(pool.drains) + 1 ]_vars
  /\ [][ BagCardinality(pool'.drains) < BagCardinality(pool.drains) =>
           \/ runningCount'[PoolWorker] >= MAX_CONCURRENT
           \/ ~ \E j \in JobIds : ClaimSelect(j) ]_vars
  /\ \A j \in JobIds : (jobs[j].status = "pending") ~> (jobs[j].status # "pending")

\* every job has been claimed and has run to its end, the worker is idle and
\* only its poll timer is left
C29_Witness ==
  /\ \A j \in JobIds : jobs[j].status \in {"completed", "failed"}
  /\ tasks = EmptyBag
  /\ runningCount[PoolWorker] = 0
  /\ pool.drains = EmptyBag
  /\ pool.timer

\* C30: a reaper sweep changes no job's retry_count or max_retries, moves no
\* job to dead_letter, and requeues a running job past its timeout whatever
\* its retry_count is.
C30_ReaperLeavesRetryCount ==
  [][ RequeueStuck =>
        \A j \in JobIds :
          /\ jobs'[j].retry_count = jobs[j].retry_count
          /\ jobs'[j].max_retries = jobs[j].max_retries
          /\ jobs'[j].status = "dead_letter" => jobs[j].status = "dead_letter"
          /\ ClaimOlder(jobs[j]) => jobs'[j].status = "pending" ]_vars

\* a job on its last retry has been reaped twice: two callers have claimed it
\* since, and it still has its retry_count
C30_Witness ==
  \E j \in JobIds : \E c, d \in Callers :
    /\ c # d
    /\ calls[c].pc = "done" /\ calls[c].job = j
    /\ calls[d].pc = "done" /\ calls[d].job = j
    /\ jobs[j].retry_count = jobs[j].max_retries - 1
    /\ jobs[j].status = "running"

\* claimNextJob calls of the worker whose rpc the store has not run yet
ClaimsInFlight(p) ==
  BagCardinality([d \in {x \in BagToSet(p.drains) : x.pc = "rpc"} |-> p.drains[d]])

\* poll loops of the process: poll() calls awaiting their drainQueue, and
\* pending poll timers
PollLoops(p) ==
  BagCardinality([d \in {x \in BagToSet(p.drains) : x.poll} |-> p.drains[d]])
  + (IF p.pollTimeoutId = "armed" THEN 1 ELSE 0) + p.timers

\* periodic reaper schedules of the process
ReaperSchedules(p) == (IF p.requeueInterval THEN 1 ELSE 0) + p.intervals

\* C31: after the first startBuildWorker of a process, the store runs no claim
\* of the worker while the startup reaper sweep has not run.
C31_SweepBeforeFirstClaim ==
  [][ (pool.ncalls = 1 /\ pool.sweep > 0)
        => ~(ClaimsInFlight(pool') < ClaimsInFlight(pool)) ]_vars

\* C33: at any time a process has at most one poll loop and at most one
\* periodic reaper schedule, however often startBuildWorker is called.
C33_OnePollLoopOneSchedule ==
  /\ PollLoops(pool) <= 1
  /\ ReaperSchedules(pool) <= 1

\* C36: once stopBuildWorker has returned (and startBuildWorker has not been
\* called again) the worker issues no further claim and sets no poll timer.
C36_NoClaimAfterStop ==
  [][ (pool.stopped /\ pool'.stopped)
        => /\ ClaimsInFlight(pool') <= ClaimsInFlight(pool)
           /\ PollLoops(pool') <= PollLoops(pool) ]_vars

\* the graph as the specification draws it
StatedGraph ==
  { <<"hired", "building">>, <<"building", "delivered">>,
    <<"delivered", "accepted">>, <<"delivered", "revision_requested">>,
    <<"delivered", "disputed">>,
    <<"revision_requested", "building">>,
    <<"disputed", "arbitration_pending">>, <<"disputed", "accepted">>,
    <<"disputed", "refunded">>,
    <<"arbitration_pending", "accepted">>, <<"arbitration_pending", "refunded">>,
    <<"hired", "cancelled">>, <<"building", "cancelled">> }

\* the pairs the check accepts beyond that graph
ExtraEdges ==
  { <<"revision_requested", "disputed">>, <<"hired", "delivered">>,
    <<"revision_requested", "delivered">> }

\* C32 as stated: the transition check accepts a pair (from, to) exactly when
\* it is an edge of the stated graph.
C32_AcceptedPairsAreTheGraph ==
  \A r \in ReqIds :
    reqs[r].code \in {"true", "false"} =>
      (reqs[r].code = "true" <=> <<builds[reqs[r].b].status, reqs[r].kind>> \in StatedGraph)

\* C32 as amended: the transition check accepts a pair (from, to) exactly when
\* it is an edge of the stated graph or one of revision_requested to disputed,
\* hired to delivered, revision_requested to delivered.
C32_AcceptedPairsAreTheTable ==
  \A r \in ReqIds :
    reqs[r].code \in {"true", "false"} =>
      (reqs[r].code = "true"
         <=> <<builds[reqs[r].b].status, reqs[r].kind>> \in StatedGraph \cup ExtraEdges)

C32_Witness ==
  \E r, q \in ReqIds :
    /\ builds[1].status = "revision_requested"
    /\ reqs[r].kind = "delivered" /\ reqs[r].code = "true"
    /\ reqs[q].kind = "accepted" /\ reqs[q].code = "false"

\* C34: for every Build, the transfers out of escrow that have succeeded
\* (releases to the agent and refunds to the requester) number at most one.
C34_FundsMovedAtMostOnce ==
  \A b \in Builds : ledger[b].released + ledger[b].refunded <= 1

\* the Builds of request q that are not cancelled
ActiveBuilds(q) ==
  {b \in JobIds : /\ builds[b] # NoBuild
                  /\ builds[b].request_id = q
                  /\ builds[b].status # "cancelled"}

\* C35: a request has at most one Build that is not cancelled.
C35_OneActiveBuildPerRequest ==
  \A q \in 1..NumRequests : Cardinality(ActiveBuilds(q)) <= 1

\* the Builds with a positive escrow amount whose deposit reference is tx
BackedBy(tx) ==
  {b \in JobIds : /\ builds[b] # NoBuild
                  /\ builds[b].escrow_amount > 0
                  /\ builds[b].deposit_tx_signature = tx}

\* C37: a deposit reference is the deposit_tx_signature of at most one Build
\* with a positive escrow amount, cancelled Builds included.
C37_OneBuildPerDeposit ==
  \A tx \in TxRefs : Cardinality(BackedBy(tx)) <= 1

\* C38: a Build that is in revision_requested eventually leaves it.
C38_RevisionLeavesRevisionRequested ==
  \A b \in Builds :
    (builds[b].status = "revision_requested")
      ~> (builds[b].status # "revision_requested")

====
